---- MODULE Spec2Model ----
(***************************************************************************)
(* State-machine model of the two screens of cloud-canvas-control:         *)
(*   src/src/pages/TemplateFoundry.tsx  (template collection state)        *)
(*   src/src/pages/Dashboard.tsx        (tenant aggregation, widgets,      *)
(*                                       onboarding checklist)             *)
(* A React component's useState cells are the variables; every handler is  *)
(* one action; a useEffect body runs in the same step as the change of its *)
(* dependencies (React flushes passive effects before the next event), and *)
(* once after the first render (the Mount actions).                        *)
(*                                                                         *)
(* Optional values (T | null, T | undefined) are sequences of length <= 1: *)
(* <<>> is null/undefined, <<v>> is the value v.                           *)
(***************************************************************************)
EXTENDS Integers, Sequences, FiniteSets, TLC

VARIABLES
    \* ---- TemplateFoundry.tsx ----
    user,            \* useAuth().user: <<>> or <<[name, tenantId, email]>>
    templates,       \* useState<Template[]>([])
    activeTemplate,  \* useState<Template | null>(null)
    isCreating,      \* useState(false)
    toast,           \* the last sonner notification, <<>> before any
    tfMounted,       \* the first render's effects have run
    clock,           \* Date.now() as last read, in ms since the screen opened
    roundTrip,       \* observer: a publish directly followed by an unpublish
    \* ---- Dashboard.tsx ----
    mockCloudAccounts,     \* fixture array (import, line 6)
    mockDeployments,       \* fixture array (import, line 6)
    currentTenant,         \* useAuth().currentTenant: <<>> or <<[id]>>
    accounts,              \* useState<CloudAccount[]>([])
    deployments,           \* useState(mockDeployments)
    providerStats,         \* useState<ProviderStats[]>([])
    statusStats,           \* useState<StatusStats[]>([])
    providerDistribution,  \* useState<CloudProviderDistribution[]>([])
    enablementItems,       \* useState(mockEnablementItems)
    widgets,               \* useState<Widget[]>([...two widgets...])
    isEditMode,            \* useState(false)
    dbMounted,             \* the first render's effect has run
    \* ---- both screens ----
    batch            \* <<>> when the handlers on screen closed over the current
                     \* state (a render followed the last handler); otherwise
                     \* <<[closure, serial]>>: the state of the last render,
                     \* which the handlers still hold, and (observer) the
                     \* collections had every invocation since then found the
                     \* result of the one before it

tfVars == <<user, templates, activeTemplate, isCreating, toast, tfMounted, clock,
           roundTrip>>
dbVars == <<mockCloudAccounts, mockDeployments, currentTenant, accounts, deployments,
            providerStats, statusStats, providerDistribution, enablementItems,
            widgets, isEditMode, dbMounted>>
vars == <<tfVars, dbVars, batch>>

\* ------------------------------------------------------------------ bounds
\* Number of create submissions a session accepts.
MaxCreates == 1

\* ------------------------------------------------------------ small helpers
Range(s) == {s[i] : i \in 1..Len(s)}

RECURSIVE SelectSeqBy(_, _)
\* Array.prototype.filter with the predicate given as the set of kept elements.
SelectSeqBy(s, keep) ==
    IF s = <<>> THEN <<>>
    ELSE IF Head(s) \in keep THEN <<Head(s)>> \o SelectSeqBy(Tail(s), keep)
         ELSE SelectSeqBy(Tail(s), keep)

\* JavaScript's undefined for a string-valued optional field.
Undefined == "undefined"
\* !x for a string-valued optional field: undefined and "" are falsy.
Falsy(x) == x = Undefined \/ x = ""
\* x || d
OrElse(x, d) == IF Falsy(x) THEN d ELSE x

\* =================================================================
\*                      TemplateFoundry.tsx
\* =================================================================

\* Values of useAuth().user the session can take.
Users == { <<>>,
           <<[name |-> "alice", tenantId |-> "tenant-2", email |-> "a@x.io"]>>,
           <<[name |-> "alice", tenantId |-> "tenant-2", email |-> "al@x.io"]>> }

\* user?.name and user?.tenantId
UserName(u) == IF u = <<>> THEN Undefined ELSE u[1].name
UserTenantId(u) == IF u = <<>> THEN Undefined ELSE u[1].tenantId

\* Math.random().toString(16).substring(...): the hex digits drawn. No code of
\* the screen reads a commitId, and the draws are not told apart.
CommitIds == {"a3f9c1"}
\* Date.now() values addWidget can observe.
Times == {1001, 1002}

\* The mockTemplates fixture (mock-data is not in src/): one record.
MockTemplate(i) ==
    [id |-> <<"tpl", i>>, name |-> "Mock template", description |-> "From fixture",
     type |-> "arm", provider |-> "aws", code |-> "resource {}",
     tenantId |-> "tenant-1", categories |-> <<"Compute">>,
     uploadedAt |-> 100 + i, updatedAt |-> 200 + i, deploymentCount |-> i]
mockTemplates == <<MockTemplate(1)>>

\* loadTemplates, lines 27-43: one fixture record converted; c is the random draw.
ConvertMock(template, u, c) ==
    [id |-> template.id, name |-> template.name, description |-> template.description,
     type |-> template.type, provider |-> template.provider,
     codeSnippet |-> template.code, tenantIds |-> <<template.tenantId>>,
     categories |-> template.categories, version |-> "1.0.0",
     createdAt |-> template.uploadedAt, updatedAt |-> template.updatedAt,
     deploymentCount |-> template.deploymentCount, isPublished |-> TRUE,
     author |-> OrElse(UserName(u), "Admin"), commitId |-> <<"", c>>]

\* loadTemplates, lines 46-64: the one draft record.
DraftTemplate(u, c) ==
    [id |-> <<"draft", 1>>, name |-> "Network Security Template",
     description |-> "Basic network security configuration",
     type |-> "terraform", provider |-> "azure", codeSnippet |-> "codeExamples.terraform",
     tenantIds |-> <<OrElse(UserTenantId(u), "tenant-1")>>,
     categories |-> <<"Security", "Networking">>, version |-> "0.1.0",
     createdAt |-> 20230410, updatedAt |-> 20230410,
     deploymentCount |-> 0, isPublished |-> FALSE,
     author |-> OrElse(UserName(u), "Admin"), commitId |-> <<"draft-", c>>]

\* loadTemplates, line 66: [...relevantTemplates, ...draftTemplates];
\* cs[i] is the i-th Math.random() draw.
LoadedTemplates(u, cs) ==
    [i \in 1..Len(mockTemplates) |-> ConvertMock(mockTemplates[i], u, cs[i])]
        \o <<DraftTemplate(u, cs[Len(mockTemplates) + 1])>>
\* The draws of one loadTemplates call.
LoadDraws == [1..(Len(mockTemplates) + 1) -> CommitIds]

\* Partial<Template> values the creation form can submit, as <<name,
\* description, codeSnippet>>: of the three required fields, none is missing,
\* one is (undefined or empty), or all three are; the optional fields are left
\* out.
FilledName == "vnet"
FilledDescription == "A network"
FilledCode == "resource vnet {}"
RequiredFields ==
    { <<FilledName, FilledDescription, FilledCode>>,
      <<Undefined, FilledDescription, FilledCode>>, <<"", FilledDescription, FilledCode>>,
      <<FilledName, Undefined, FilledCode>>, <<FilledName, "", FilledCode>>,
      <<FilledName, FilledDescription, Undefined>>, <<FilledName, FilledDescription, "">>,
      <<Undefined, Undefined, Undefined>>, <<"", "", "">> }
TemplateDatas ==
    { [name |-> r[1], description |-> r[2], codeSnippet |-> r[3],
       type |-> Undefined, provider |-> Undefined, tenantIds |-> <<>>,
       categories |-> <<>>] : r \in RequiredFields }

\* Faulty variant of MissingRequired: the description is not validated.
MissingRequiredNoDescription(templateData) ==
    Falsy(templateData.name) \/ Falsy(templateData.codeSnippet)

\* handleCreateTemplate, line 74: the validation.
MissingRequired(templateData) ==
    Falsy(templateData.name) \/ Falsy(templateData.description)
        \/ Falsy(templateData.codeSnippet)

\* Faulty variant of NewTemplate: the new record is born published.
NewTemplatePublished(templateData, u, ms, c) ==
    [id |-> <<"template", ms>>,
     name |-> OrElse(templateData.name, ""),
     description |-> OrElse(templateData.description, ""),
     type |-> OrElse(templateData.type, "terraform"),
     provider |-> OrElse(templateData.provider, "azure"),
     codeSnippet |-> OrElse(templateData.codeSnippet, ""),
     tenantIds |-> <<OrElse(UserTenantId(u), "tenant-1")>>,
     categories |-> <<>>,
     version |-> "1.0.0", createdAt |-> ms, updatedAt |-> ms,
     deploymentCount |-> 0, isPublished |-> TRUE,
     author |-> OrElse(UserName(u), "Admin"), commitId |-> <<"", c>>]

\* handleCreateTemplate, lines 79-95: the new record; ms is Date.now(), c the
\* random draw.
NewTemplate(templateData, u, ms, c) ==
    [id |-> <<"template", ms>>,
     name |-> OrElse(templateData.name, ""),
     description |-> OrElse(templateData.description, ""),
     type |-> OrElse(templateData.type, "terraform"),
     provider |-> OrElse(templateData.provider, "azure"),
     codeSnippet |-> OrElse(templateData.codeSnippet, ""),
     tenantIds |-> IF templateData.tenantIds = <<>>
                   THEN <<OrElse(UserTenantId(u), "tenant-1")>>
                   ELSE templateData.tenantIds[1],
     categories |-> IF templateData.categories = <<>> THEN <<>>
                    ELSE templateData.categories[1],
     version |-> "1.0.0", createdAt |-> ms, updatedAt |-> ms,
     deploymentCount |-> 0, isPublished |-> FALSE,
     author |-> OrElse(UserName(u), "Admin"), commitId |-> <<"", c>>]

\* The notifications the screen raises (sonner's toast.error / toast.success).
ToastError(m) == <<[kind |-> "error", message |-> m]>>
ToastSuccess(m) == <<[kind |-> "success", message |-> m]>>

\* Faulty variant of PublishedTemplates: the id test is missing.
PublishedTemplatesAll(ts, template) ==
    [i \in 1..Len(ts) |-> [ts[i] EXCEPT !.isPublished = TRUE]]

\* handlePublishTemplate, lines 113-115:
\* templates.map(t => t.id === template.id ? { ...t, isPublished: true } : t)
PublishedTemplates(ts, template) ==
    [i \in 1..Len(ts) |-> IF ts[i].id = template.id
                          THEN [ts[i] EXCEPT !.isPublished = TRUE] ELSE ts[i]]

\* Faulty variant of UnpublishedTemplates: the flag is set as publish sets it.
UnpublishedTemplatesTrue(ts, template) ==
    [i \in 1..Len(ts) |-> IF ts[i].id = template.id
                          THEN [ts[i] EXCEPT !.isPublished = TRUE] ELSE ts[i]]

\* handleUnpublishTemplate, lines 122-124:
\* templates.map(t => t.id === template.id ? { ...t, isPublished: false } : t)
UnpublishedTemplates(ts, template) ==
    [i \in 1..Len(ts) |-> IF ts[i].id = template.id
                          THEN [ts[i] EXCEPT !.isPublished = FALSE] ELSE ts[i]]

\* lines 117 and 126: prev => prev && { ...prev, isPublished: flag }
ActivePublished(prev, flag) ==
    IF prev = <<>> THEN <<>> ELSE <<[prev[1] EXCEPT !.isPublished = flag]>>

\* Faulty variant of MapUpdated: only the name is taken from the update.
MapUpdatedNameOnly(ts, updatedTemplate) ==
    [i \in 1..Len(ts) |-> IF ts[i].id = updatedTemplate.id
                          THEN [ts[i] EXCEPT !.name = updatedTemplate.name] ELSE ts[i]]

\* lines 103-105: templates.map(t => t.id === updatedTemplate.id ? updatedTemplate : t)
MapUpdated(ts, updatedTemplate) ==
    [i \in 1..Len(ts) |-> IF ts[i].id = updatedTemplate.id THEN updatedTemplate ELSE ts[i]]

\* Faulty variant of FilterOutId: the test is inverted.
FilterOnlyId(ts, templateId) ==
    SelectSeqBy(ts, {t \in Range(ts) : t.id = templateId})

\* line 131: templates.filter(t => t.id !== templateId)
FilterOutId(ts, templateId) ==
    SelectSeqBy(ts, {t \in Range(ts) : t.id # templateId})

\* TemplateDetails (not in src/) is given the selected template and the four
\* handlers (lines 190-196): what it hands back is that template, or an edit of
\* it, the same id with another name and version.
TemplateArgs == Range(activeTemplate)
Edited(t) == [t EXCEPT !.name = "Renamed", !.version = "1.1.0"]
UpdateArgs == TemplateArgs \cup {Edited(t) : t \in TemplateArgs}

\* ------------------------------------------------------------ actions
\* useEffect(() => loadTemplates(), [loadTemplates]) after the first render.
TemplateFoundryMount ==
    /\ ~tfMounted
    /\ \E cs \in LoadDraws : templates' = LoadedTemplates(user, cs)
    /\ tfMounted' = TRUE
    /\ roundTrip' = <<>>
    /\ UNCHANGED <<user, activeTemplate, isCreating, toast, clock, dbVars, batch>>

\* The auth context hands the component another user; loadTemplates is rebuilt
\* and its effect re-run when user?.name or user?.tenantId changed (line 67).
UserChange(u) ==
    /\ tfMounted
    /\ u # user
    /\ user' = u
    /\ IF UserName(u) # UserName(user) \/ UserTenantId(u) # UserTenantId(user)
       THEN \E cs \in LoadDraws : templates' = LoadedTemplates(u, cs)
       ELSE UNCHANGED templates
    /\ roundTrip' = <<>>
    /\ UNCHANGED <<activeTemplate, isCreating, toast, tfMounted, clock, dbVars, batch>>

\* TemplateList's setActiveTemplate (line 182) on a listed template.
SetActiveTemplate(t) ==
    /\ tfMounted
    /\ activeTemplate' = <<t>>
    /\ roundTrip' = <<>>
    /\ UNCHANGED <<user, templates, isCreating, toast, tfMounted, clock, dbVars, batch>>

\* Dialog onOpenChange (line 146), onCancel (line 163), the button of line 207.
SetIsCreating(b) ==
    /\ tfMounted
    /\ isCreating' = b
    /\ roundTrip' = <<>>
    /\ UNCHANGED <<user, templates, activeTemplate, toast, tfMounted, clock, dbVars, batch>>

\* handleCreateTemplate (lines 73-100); the form is shown while the dialog is
\* open. Two submissions are at least a millisecond apart.
handleCreateTemplate(templateData) ==
    /\ tfMounted
    /\ isCreating
    /\ roundTrip' = <<>>
    /\ IF MissingRequired(templateData)
       THEN /\ toast' = ToastError("Please fill in all required fields")
            /\ UNCHANGED <<templates, isCreating, clock>>
       ELSE /\ clock < MaxCreates
            /\ clock' = clock + 1
            /\ \E c \in CommitIds :
                   templates' = Append(templates, NewTemplate(templateData, user, clock', c))
            /\ isCreating' = FALSE
            /\ toast' = ToastSuccess("Template created successfully")
    /\ UNCHANGED <<user, activeTemplate, tfMounted, dbVars, batch>>

\* handleUpdateTemplate (lines 102-110); TemplateDetails is shown while a
\* template is selected (line 189).
handleUpdateTemplate(updatedTemplate) ==
    /\ tfMounted
    /\ activeTemplate # <<>>
    /\ templates' = MapUpdated(templates, updatedTemplate)
    /\ activeTemplate' = <<updatedTemplate>>
    /\ toast' = ToastSuccess("Template updated successfully")
    /\ roundTrip' = <<>>
    /\ UNCHANGED <<user, isCreating, tfMounted, clock, dbVars, batch>>

\* handlePublishTemplate (lines 112-119)
handlePublishTemplate(template) ==
    /\ tfMounted
    /\ activeTemplate # <<>>
    /\ templates' = PublishedTemplates(templates, template)
    /\ activeTemplate' = ActivePublished(activeTemplate, TRUE)
    /\ toast' = ToastSuccess("Template published successfully")
    /\ roundTrip' = <<[id |-> template.id, before |-> templates, done |-> FALSE]>>
    /\ UNCHANGED <<user, isCreating, tfMounted, clock, dbVars, batch>>

\* handleUnpublishTemplate (lines 121-128)
handleUnpublishTemplate(template) ==
    /\ tfMounted
    /\ activeTemplate # <<>>
    /\ templates' = UnpublishedTemplates(templates, template)
    /\ activeTemplate' = ActivePublished(activeTemplate, FALSE)
    /\ toast' = ToastSuccess("Template unpublished successfully")
    /\ roundTrip' = IF roundTrip # <<>> /\ ~roundTrip[1].done
                        /\ roundTrip[1].id = template.id
                     THEN <<[roundTrip[1] EXCEPT !.done = TRUE]>>
                     ELSE <<>>
    /\ UNCHANGED <<user, isCreating, tfMounted, clock, dbVars, batch>>

\* handleDeleteTemplate (lines 130-134)
handleDeleteTemplate(templateId) ==
    /\ tfMounted
    /\ activeTemplate # <<>>
    /\ templates' = FilterOutId(templates, templateId)
    /\ activeTemplate' = <<>>
    /\ toast' = ToastSuccess("Template deleted successfully")
    /\ roundTrip' = <<>>
    /\ UNCHANGED <<user, isCreating, tfMounted, clock, dbVars, batch>>

\* =================================================================
\*                         Dashboard.tsx
\* =================================================================

\* Bounds on the fixture arrays Init draws (mock-data is not in src/).
MaxAccounts == 3
MaxDeployments == 3
\* The model adds widgets up to this many.
MaxWidgets == 4
\* The column count of the widget grid (line 183).
GridColumns == 3

Tenants == {"tenant-1", "tenant-2"}
\* CloudProvider (keys of providerColors, lines 101-105)
CloudProviders == {"azure", "aws", "gcp"}
\* DeploymentStatus (keys of statusColors, lines 107-113)
DeploymentStatuses == {"running", "pending", "failed", "stopped", "deploying"}
\* The providers and statuses the drawn deployment fixtures use.
DrawnProviders == {"azure", "aws"}
DrawnStatuses == {"running", "pending", "failed"}

\* Values of useAuth().currentTenant.
CurrentTenants == {<<>>} \cup {<<[id |-> t]>> : t \in Tenants}

\* A fixture array from the fields that vary: record i gets id i.
AccountArray(f) ==
    [i \in 1..Len(f) |-> [id |-> i, name |-> "account", provider |-> f[i].provider,
                          tenantId |-> f[i].tenantId, status |-> "connected"]]
DeploymentArray(f) ==
    [i \in 1..Len(f) |-> [id |-> i, name |-> "deployment", provider |-> f[i].provider,
                          tenantId |-> f[i].tenantId, environment |-> "prod",
                          status |-> f[i].status]]

AccountFixtures ==
    {AccountArray(f) : f \in UNION {[1..n -> [provider : CloudProviders, tenantId : Tenants]]
                                      : n \in 0..MaxAccounts}}
DeploymentFixtures ==
    {DeploymentArray(f) :
        f \in UNION {[1..n -> [provider : DrawnProviders, tenantId : Tenants,
                               status : DrawnStatuses]] : n \in 0..MaxDeployments}}

\* One larger fixture of each kind: tenant-1 has deployments running x3,
\* failed x1, pending x2, and tenant-2 has one stopped deployment.
SampleAccounts ==
    AccountArray(<<[provider |-> "azure", tenantId |-> "tenant-1"],
                   [provider |-> "aws",   tenantId |-> "tenant-2"],
                   [provider |-> "azure", tenantId |-> "tenant-1"],
                   [provider |-> "gcp",   tenantId |-> "tenant-1"]>>)
SampleDeployments ==
    DeploymentArray(<<[provider |-> "azure", tenantId |-> "tenant-1", status |-> "running"],
                      [provider |-> "aws",   tenantId |-> "tenant-1", status |-> "failed"],
                      [provider |-> "gcp",   tenantId |-> "tenant-2", status |-> "stopped"],
                      [provider |-> "azure", tenantId |-> "tenant-1", status |-> "pending"],
                      [provider |-> "azure", tenantId |-> "tenant-1", status |-> "running"],
                      [provider |-> "gcp",   tenantId |-> "tenant-1", status |-> "pending"],
                      [provider |-> "aws",   tenantId |-> "tenant-1", status |-> "running"]>>)

\* lines 118-120 and 123-125: fixture.filter(r => r.tenantId === currentTenant.id)
FilterByTenant(fixture, tenantId) ==
    SelectSeqBy(fixture, {r \in Range(fixture) : r.tenantId = tenantId})

\* A JavaScript object used as a counter table: its own keys in insertion
\* order, as a sequence of [key, value].
ObjHas(obj, k) == \E i \in 1..Len(obj) : obj[i].key = k
\* acc[k] || 0
ObjGetOrZero(obj, k) ==
    IF ObjHas(obj, k) THEN (CHOOSE e \in Range(obj) : e.key = k).value ELSE 0
\* acc[k] = v
ObjSet(obj, k, v) ==
    IF ObjHas(obj, k)
    THEN [i \in 1..Len(obj) |-> IF obj[i].key = k THEN [obj[i] EXCEPT !.value = v] ELSE obj[i]]
    ELSE Append(obj, [key |-> k, value |-> v])

\* Faulty variant of CountStep: a key seen again restarts at 1.
CountStepRestart(acc, k) == ObjSet(acc, k, 1)

\* The reducers of lines 129-132, 142-145, 155-158 over the array's keys:
\* acc[key] = (acc[key] || 0) + 1, starting from {}.
CountStep(acc, k) == ObjSet(acc, k, ObjGetOrZero(acc, k) + 1)
RECURSIVE ReduceCount(_, _)
ReduceCount(keys, acc) ==
    IF keys = <<>> THEN acc ELSE ReduceCount(Tail(keys), CountStep(acc, Head(keys)))

ProviderKeys(s) == [i \in 1..Len(s) |-> s[i].provider]
StatusKeys(s) == [i \in 1..Len(s) |-> s[i].status]

\* Object.entries(obj).map(([name, value]) => ({name, value})), lines 135-138, 148-151
StatsOf(obj) == [i \in 1..Len(obj) |-> [name |-> obj[i].key, value |-> obj[i].value]]
\* lines 161-164: ({name, deployments})
DistributionOf(obj) ==
    [i \in 1..Len(obj) |-> [name |-> obj[i].key, deployments |-> obj[i].value]]

\* The body of the effect, lines 116-166, for tenant value ct.
TenantEffect(ct) ==
    IF ct # <<>>
    THEN LET tenantAccounts == FilterByTenant(mockCloudAccounts, ct[1].id)
             tenantDeployments == FilterByTenant(mockDeployments, ct[1].id)
         IN /\ accounts' = tenantAccounts
            /\ deployments' = tenantDeployments
            /\ providerStats' = StatsOf(ReduceCount(ProviderKeys(tenantAccounts), <<>>))
            /\ statusStats' = StatsOf(ReduceCount(StatusKeys(tenantDeployments), <<>>))
            /\ providerDistribution' =
                   DistributionOf(ReduceCount(ProviderKeys(tenantDeployments), <<>>))
    ELSE UNCHANGED <<accounts, deployments, providerStats, statusStats, providerDistribution>>

\* mockEnablementItems, lines 45-76
mockEnablementItems ==
    <<[id |-> "1", title |-> "Platform Overview", type |-> "video", completed |-> FALSE],
      [id |-> "2", title |-> "Connecting Your First Cloud Account", type |-> "guide",
       completed |-> FALSE],
      [id |-> "3", title |-> "Deploying Your First Template", type |-> "video",
       completed |-> FALSE],
      [id |-> "4", title |-> "Managing Environments", type |-> "guide", completed |-> FALSE]>>

\* availableWidgets, lines 78-83
availableWidgets ==
    <<[id |-> "deployments-chart", title |-> "Deployments Chart", size |-> "large"],
      [id |-> "cloud-providers", title |-> "Cloud Providers", size |-> "medium"],
      [id |-> "recent-activity", title |-> "Recent Activity", size |-> "medium"],
      [id |-> "system-health", title |-> "System Health", size |-> "small"]>>

\* useState<Widget[]>, lines 94-97
InitialWidgets ==
    <<[id |-> <<"deployments-chart">>, type |-> "chart", title |-> "Deployments Chart",
       size |-> "large", position |-> [x |-> 0, y |-> 0]],
      [id |-> <<"cloud-providers">>, type |-> "chart", title |-> "Cloud Providers",
       size |-> "medium", position |-> [x |-> 1, y |-> 0]]>>

\* Faulty variant of NewWidget: column and row are exchanged.
NewWidgetTransposed(ws, widgetType, ms) ==
    LET found == {w \in Range(availableWidgets) : w.id = widgetType}
    IN [id |-> <<widgetType, ms>>, type |-> widgetType,
        title |-> IF found = {} THEN "New Widget" ELSE (CHOOSE w \in found : TRUE).title,
        size |-> IF found = {} THEN "medium" ELSE (CHOOSE w \in found : TRUE).size,
        position |-> [x |-> Len(ws) \div GridColumns, y |-> Len(ws) % GridColumns]]

\* addWidget, lines 178-184: the new descriptor; ms is Date.now().
NewWidget(ws, widgetType, ms) ==
    LET found == {w \in Range(availableWidgets) : w.id = widgetType}
    IN [id |-> <<widgetType, ms>>, type |-> widgetType,
        title |-> IF found = {} THEN "New Widget" ELSE (CHOOSE w \in found : TRUE).title,
        size |-> IF found = {} THEN "medium" ELSE (CHOOSE w \in found : TRUE).size,
        position |-> [x |-> Len(ws) % GridColumns, y |-> Len(ws) \div GridColumns]]

\* Faulty variant of CompletedItems: the other items are reset.
CompletedItemsOnly(items, id) ==
    [i \in 1..Len(items) |-> [items[i] EXCEPT !.completed = (items[i].id = id)]]

\* markEnablementComplete's updater, lines 170-174:
\* items => items.map(item => item.id === id ? { ...item, completed: true } : item)
CompletedItems(items, id) ==
    [i \in 1..Len(items) |-> IF items[i].id = id
                             THEN [items[i] EXCEPT !.completed = TRUE] ELSE items[i]]

\* Faulty variant of showEnablement: every item must be incomplete.
showEnablementEvery == \A i \in 1..Len(enablementItems) : ~enablementItems[i].completed

\* line 194
showEnablement == \E i \in 1..Len(enablementItems) : ~enablementItems[i].completed

\* ------------------------------------------------------------ actions
dbData == <<accounts, deployments, providerStats, statusStats, providerDistribution>>
dbFixtures == <<mockCloudAccounts, mockDeployments>>

\* useEffect(..., [currentTenant]) after the first render (lines 115-167).
DashboardMount ==
    /\ ~dbMounted
    /\ dbMounted' = TRUE
    /\ TenantEffect(currentTenant)
    /\ UNCHANGED <<dbFixtures, currentTenant, enablementItems, widgets, isEditMode, tfVars, batch>>

\* The auth context hands the component another tenant (or none); the effect
\* runs again with it.
TenantChange(ct) ==
    /\ dbMounted
    /\ ct # currentTenant
    /\ currentTenant' = ct
    /\ TenantEffect(ct)
    /\ UNCHANGED <<dbFixtures, enablementItems, widgets, isEditMode, dbMounted, tfVars, batch>>

\* markEnablementComplete (lines 169-175); its button is shown while the
\* section is and disabled on a completed item (lines 244, 276).
markEnablementComplete(id) ==
    /\ dbMounted
    /\ \E i \in 1..Len(enablementItems) :
           enablementItems[i].id = id /\ ~enablementItems[i].completed
    /\ enablementItems' = CompletedItems(enablementItems, id)
    /\ UNCHANGED <<dbFixtures, currentTenant, dbData, widgets, isEditMode, dbMounted, tfVars, batch>>

\* addWidget (lines 177-186); the dialog is shown in edit mode (line 201).
addWidget(widgetType) ==
    /\ dbMounted
    /\ isEditMode
    /\ Len(widgets) < MaxWidgets
    /\ \E ms \in Times : widgets' = Append(widgets, NewWidget(widgets, widgetType, ms))
    /\ UNCHANGED <<dbFixtures, currentTenant, dbData, enablementItems, isEditMode,
                   dbMounted, tfVars, batch>>

\* saveDashboard (lines 188-192); the button is shown in edit mode.
saveDashboard ==
    /\ dbMounted
    /\ isEditMode
    /\ isEditMode' = FALSE
    /\ UNCHANGED <<dbFixtures, currentTenant, dbData, enablementItems, widgets,
                   dbMounted, tfVars, batch>>

\* The Edit Dashboard button (line 236), shown outside edit mode.
EditDashboard ==
    /\ dbMounted
    /\ ~isEditMode
    /\ isEditMode' = TRUE
    /\ UNCHANGED <<dbFixtures, currentTenant, dbData, enablementItems, widgets,
                   dbMounted, tfVars, batch>>

\* =================================================================
\*          handlers invoked before the component re-renders
\* =================================================================
\* Every handler is a closure of the render that created it: the templates of
\* lines 97, 103, 113, 122, 131 and the widgets of lines 183, 185 are that
\* render's values. The actions above model a handler together with the render
\* that follows it; the actions below model a handler alone, so that several
\* can run off one render (one event that calls two of them, one batch).
\* setState(value) replaces the cell; setState(prev => ...) reads the cell.

\* The values the handlers on screen closed over.
Closure ==
    IF batch = <<>>
    THEN [templates |-> templates, activeTemplate |-> activeTemplate,
          isCreating |-> isCreating, widgets |-> widgets, isEditMode |-> isEditMode]
    ELSE batch[1].closure
\* The collections, had every invocation since the last render been applied
\* to the result of the one before it.
Serial ==
    IF batch = <<>> THEN [templates |-> templates, widgets |-> widgets]
    ELSE batch[1].serial
\* The batch after one more invocation, whose serial results are st and sw.
Batched(st, sw) ==
    <<[closure |-> Closure, serial |-> [templates |-> st, widgets |-> sw]]>>

\* What the TemplateDetails of the last render hands to the handlers.
ClosureArgs == Range(Closure.activeTemplate)
ClosureUpdateArgs == ClosureArgs \cup {Edited(t) : t \in ClosureArgs}

\* handleCreateTemplate (lines 73-100) of the last render.
handleCreateTemplateOfRender(templateData) ==
    /\ tfMounted
    /\ Closure.isCreating
    /\ roundTrip' = <<>>
    /\ IF MissingRequired(templateData)
       THEN /\ toast' = ToastError("Please fill in all required fields")
            /\ batch' = Batched(Serial.templates, Serial.widgets)
            /\ UNCHANGED <<templates, isCreating, clock>>
       ELSE /\ clock < MaxCreates
            /\ clock' = clock + 1
            /\ \E c \in CommitIds :
                  LET newTemplate == NewTemplate(templateData, user, clock', c)
                  IN /\ templates' = Append(Closure.templates, newTemplate)
                     /\ batch' = Batched(Append(Serial.templates, newTemplate),
                                         Serial.widgets)
            /\ isCreating' = FALSE
            /\ toast' = ToastSuccess("Template created successfully")
    /\ UNCHANGED <<user, activeTemplate, tfMounted, dbVars>>

\* handleUpdateTemplate (lines 102-110) of the last render.
handleUpdateTemplateOfRender(updatedTemplate) ==
    /\ tfMounted
    /\ templates' = MapUpdated(Closure.templates, updatedTemplate)
    /\ activeTemplate' = <<updatedTemplate>>
    /\ toast' = ToastSuccess("Template updated successfully")
    /\ batch' = Batched(MapUpdated(Serial.templates, updatedTemplate), Serial.widgets)
    /\ roundTrip' = <<>>
    /\ UNCHANGED <<user, isCreating, tfMounted, clock, dbVars>>

\* handlePublishTemplate (lines 112-119) of the last render.
handlePublishTemplateOfRender(template) ==
    /\ tfMounted
    /\ templates' = PublishedTemplates(Closure.templates, template)
    /\ activeTemplate' = ActivePublished(activeTemplate, TRUE)
    /\ toast' = ToastSuccess("Template published successfully")
    /\ batch' = Batched(PublishedTemplates(Serial.templates, template), Serial.widgets)
    /\ roundTrip' = <<>>
    /\ UNCHANGED <<user, isCreating, tfMounted, clock, dbVars>>

\* handleUnpublishTemplate (lines 121-128) of the last render.
handleUnpublishTemplateOfRender(template) ==
    /\ tfMounted
    /\ templates' = UnpublishedTemplates(Closure.templates, template)
    /\ activeTemplate' = ActivePublished(activeTemplate, FALSE)
    /\ toast' = ToastSuccess("Template unpublished successfully")
    /\ batch' = Batched(UnpublishedTemplates(Serial.templates, template), Serial.widgets)
    /\ roundTrip' = <<>>
    /\ UNCHANGED <<user, isCreating, tfMounted, clock, dbVars>>

\* handleDeleteTemplate (lines 130-134) of the last render.
handleDeleteTemplateOfRender(templateId) ==
    /\ tfMounted
    /\ templates' = FilterOutId(Closure.templates, templateId)
    /\ activeTemplate' = <<>>
    /\ toast' = ToastSuccess("Template deleted successfully")
    /\ batch' = Batched(FilterOutId(Serial.templates, templateId), Serial.widgets)
    /\ roundTrip' = <<>>
    /\ UNCHANGED <<user, isCreating, tfMounted, clock, dbVars>>

\* addWidget (lines 177-186) of the last render.
addWidgetOfRender(widgetType) ==
    /\ dbMounted
    /\ Closure.isEditMode
    /\ Len(Serial.widgets) < MaxWidgets
    /\ \E ms \in Times :
          /\ widgets' = Append(Closure.widgets, NewWidget(Closure.widgets, widgetType, ms))
          /\ batch' = Batched(Serial.templates,
                              Append(Serial.widgets,
                                     NewWidget(Serial.widgets, widgetType, ms)))
    /\ UNCHANGED <<dbFixtures, currentTenant, dbData, enablementItems, isEditMode,
                   dbMounted, tfVars>>

\* React renders the component with the state the invocations left; the
\* handlers on screen are rebuilt over it.
Render ==
    /\ batch # <<>>
    /\ batch' = <<>>
    /\ UNCHANGED <<tfVars, dbVars>>

\* =================================================================
\*                        specifications
\* =================================================================

\* TemplateFoundry after construction (lines 18-23); the user is whatever the
\* auth context holds.
InitTemplateFoundry ==
    /\ user \in Users
    /\ templates = <<>>
    /\ activeTemplate = <<>>
    /\ isCreating = FALSE
    /\ toast = <<>>
    /\ tfMounted = FALSE
    /\ clock = 0
    /\ roundTrip = <<>>

\* Dashboard after construction (lines 86-98) over the fixtures fa and fd.
InitDashboard(fa, fd) ==
    /\ mockCloudAccounts = fa
    /\ mockDeployments = fd
    /\ currentTenant \in CurrentTenants
    /\ accounts = <<>>
    /\ deployments = fd
    /\ providerStats = <<>>
    /\ statusStats = <<>>
    /\ providerDistribution = <<>>
    /\ enablementItems = mockEnablementItems
    /\ widgets = InitialWidgets
    /\ isEditMode = FALSE
    /\ dbMounted = FALSE

\* The template screen alone; the dashboard is not shown.
Init ==
    /\ InitTemplateFoundry
    /\ batch = <<>>
    /\ InitDashboard(SampleAccounts, SampleDeployments)
    /\ currentTenant = <<>>

Next ==
    \/ TemplateFoundryMount
    \/ \E u \in Users : UserChange(u)
    \/ \E t \in Range(templates) : SetActiveTemplate(t)
    \/ \E b \in BOOLEAN : SetIsCreating(b)
    \/ \E templateData \in TemplateDatas : handleCreateTemplate(templateData)
    \/ \E t \in UpdateArgs : handleUpdateTemplate(t)
    \/ \E t \in TemplateArgs : handlePublishTemplate(t)
    \/ \E t \in TemplateArgs : handleUnpublishTemplate(t)
    \/ \E t \in TemplateArgs : handleDeleteTemplate(t.id)

Spec == Init /\ [][Next]_vars

\* The dashboard's tenant aggregation over drawn fixtures: the account fixture
\* and the deployment fixture are folded separately, so each is drawn against
\* the other's sample.
InitAgg ==
    /\ InitTemplateFoundry
    /\ batch = <<>>
    /\ user = <<>>
    /\ \/ \E fa \in AccountFixtures : InitDashboard(fa, SampleDeployments)
       \/ \E fd \in DeploymentFixtures : InitDashboard(SampleAccounts, fd)

NextAgg ==
    \/ DashboardMount
    \/ \E ct \in CurrentTenants : TenantChange(ct)

SpecAgg == InitAgg /\ [][NextAgg]_vars

\* The whole dashboard over the sample fixtures.
InitDash ==
    /\ InitTemplateFoundry
    /\ batch = <<>>
    /\ user = <<>>
    /\ InitDashboard(SampleAccounts, SampleDeployments)

NextDash ==
    \/ DashboardMount
    \/ \E ct \in CurrentTenants : TenantChange(ct)
    \/ \E i \in 1..Len(enablementItems) : markEnablementComplete(enablementItems[i].id)
    \/ \E i \in 1..Len(availableWidgets) : addWidget(availableWidgets[i].id)
    \/ saveDashboard
    \/ EditDashboard

SpecDash == InitDash /\ [][NextDash]_vars

\* One screen on display, its handlers free to run several to a render.
InitBatch ==
    /\ InitTemplateFoundry
    /\ user = <<>>
    /\ batch = <<>>
    /\ InitDashboard(SampleAccounts, SampleDeployments)
    /\ currentTenant = <<>>

NextBatch ==
    \/ ~dbMounted /\ batch = <<>> /\ TemplateFoundryMount
    \/ ~tfMounted /\ batch = <<>> /\ DashboardMount
    \/ batch = <<>> /\ \E t \in Range(templates) : SetActiveTemplate(t)
    \/ batch = <<>> /\ \E b \in BOOLEAN : SetIsCreating(b)
    \/ batch = <<>> /\ EditDashboard
    \/ \E templateData \in TemplateDatas : handleCreateTemplateOfRender(templateData)
    \/ \E t \in ClosureUpdateArgs : handleUpdateTemplateOfRender(t)
    \/ \E t \in ClosureArgs : handlePublishTemplateOfRender(t)
    \/ \E t \in ClosureArgs : handleUnpublishTemplateOfRender(t)
    \/ \E t \in ClosureArgs : handleDeleteTemplateOfRender(t.id)
    \/ \E i \in 1..Len(availableWidgets) : addWidgetOfRender(availableWidgets[i].id)
    \/ Render

SpecBatch == InitBatch /\ [][NextBatch]_vars

\* =================================================================
\*                          properties
\* =================================================================

\* The notifications by name.
CreatedToast == ToastSuccess("Template created successfully")
RejectedToast == ToastError("Please fill in all required fields")
UpdatedToast == ToastSuccess("Template updated successfully")
PublishedToast == ToastSuccess("Template published successfully")
UnpublishedToast == ToastSuccess("Template unpublished successfully")
DeletedToast == ToastSuccess("Template deleted successfully")

\* Record r2 is record r1 except, at most, for its isPublished flag.
SameButPublished(r1, r2) ==
    /\ DOMAIN r1 = DOMAIN r2
    /\ \A f \in DOMAIN r1 \ {"isPublished"} : r1[f] = r2[f]

\* C1: a create submission whose name, description and code snippet are all
\* non-empty yields the previous collection with exactly one record appended
\* (length + 1, the prior records unchanged and in order); the appended record
\* has isPublished = false and version "1.0.0".
C1_CreateAppendsOneDraft ==
    [][\A templateData \in TemplateDatas :
          ( /\ ~Falsy(templateData.name)
            /\ ~Falsy(templateData.description)
            /\ ~Falsy(templateData.codeSnippet)
            /\ handleCreateTemplate(templateData) )
          => /\ Len(templates') = Len(templates) + 1
             /\ SubSeq(templates', 1, Len(templates)) = templates
             /\ templates'[Len(templates')].isPublished = FALSE
             /\ templates'[Len(templates')].version = "1.0.0"]_vars

\* A create has just been accepted: the collection is the loaded one plus the
\* new draft.
C1_Witness ==
    /\ toast = CreatedToast
    /\ Len(templates) = Len(mockTemplates) + 2
    /\ templates[Len(templates)].id = <<"template", clock>>
    /\ ~templates[Len(templates)].isPublished
    /\ templates[Len(templates)].version = "1.0.0"

\* C2: a create submission in which name, description or code snippet is
\* empty raises the validation error and changes nothing else: the collection,
\* the selection and the dialog's open flag stay as they were.
C2_RejectedCreateChangesNothing ==
    [][\A templateData \in TemplateDatas :
          ( /\ \/ Falsy(templateData.name)
               \/ Falsy(templateData.description)
               \/ Falsy(templateData.codeSnippet)
            /\ handleCreateTemplate(templateData) )
          => /\ toast' = RejectedToast
             /\ UNCHANGED <<templates, activeTemplate, isCreating, user, clock>>]_vars

\* A submission has just been rejected with the dialog still open, a template
\* selected and the loaded collection in place.
C2_Witness ==
    /\ toast = RejectedToast
    /\ isCreating
    /\ activeTemplate # <<>>
    /\ Len(templates) = Len(mockTemplates) + 1

\* C3: handlePublishTemplate(t) and handleUnpublishTemplate(t) change only the
\* isPublished flag (to true, to false) of the collection's records whose id is
\* t.id: their other fields, every other record, and the collection's length
\* and order are unchanged.
C3_PublishTouchesOnlyTheFlag ==
    [][\A t \in TemplateArgs :
          /\ handlePublishTemplate(t)
               => /\ Len(templates') = Len(templates)
                  /\ \A i \in 1..Len(templates) :
                        IF templates[i].id = t.id
                        THEN /\ templates'[i].isPublished = TRUE
                             /\ SameButPublished(templates[i], templates'[i])
                        ELSE templates'[i] = templates[i]
          /\ handleUnpublishTemplate(t)
               => /\ Len(templates') = Len(templates)
                  /\ \A i \in 1..Len(templates) :
                        IF templates[i].id = t.id
                        THEN /\ templates'[i].isPublished = FALSE
                             /\ SameButPublished(templates[i], templates'[i])
                        ELSE templates'[i] = templates[i]]_vars

\* A draft of a collection of several records has just been published, and a
\* record beside it is as it was.
C3_Witness ==
    /\ toast = PublishedToast
    /\ roundTrip # <<>>
    /\ ~roundTrip[1].done
    /\ Len(templates) >= 2
    /\ \E i, j \in 1..Len(templates) :
          /\ templates[i].id = roundTrip[1].id
          /\ ~roundTrip[1].before[i].isPublished
          /\ templates[i].isPublished
          /\ templates[j].id # roundTrip[1].id
          /\ templates[j] = roundTrip[1].before[j]
\* C4 as stated: for every record of the collection, published or draft,
\* publishing and then unpublishing its id returns the record's isPublished to
\* the value it had before the publish, its other fields unchanged: the record
\* is again what it was.
C4_RoundTripRestoresFlag ==
    (roundTrip # <<>> /\ roundTrip[1].done)
        => \A i \in 1..Len(roundTrip[1].before) :
              roundTrip[1].before[i].id = roundTrip[1].id
                  => /\ i <= Len(templates)
                     /\ templates[i] = roundTrip[1].before[i]

\* C4 as amended: publishing and then unpublishing an id leaves every record
\* with that id unpublished, its other fields unchanged, and every other
\* record as it was; so isPublished returns to its original value for a record
\* that was a draft, and does not for one that was published.
C4_RoundTripEndsUnpublished ==
    (roundTrip # <<>> /\ roundTrip[1].done)
        => /\ Len(templates) = Len(roundTrip[1].before)
           /\ \A i \in 1..Len(templates) :
                 templates[i] =
                     IF roundTrip[1].before[i].id = roundTrip[1].id
                     THEN [roundTrip[1].before[i] EXCEPT !.isPublished = FALSE]
                     ELSE roundTrip[1].before[i]

\* A draft of the collection has been published and then unpublished, and is
\* what it was.
C4_Witness ==
    /\ roundTrip # <<>>
    /\ roundTrip[1].done
    /\ toast = UnpublishedToast
    /\ \E i \in 1..Len(templates) :
          /\ roundTrip[1].before[i].id = roundTrip[1].id
          /\ ~roundTrip[1].before[i].isPublished
          /\ templates[i] = roundTrip[1].before[i]

\* C5: handleUpdateTemplate(u) replaces the records whose id is u.id by u and
\* leaves every other record, the length and the order as they were; if u.id is
\* the id of the selected template, the selection afterwards is u.
C5_UpdateReplacesById ==
    [][\A u \in UpdateArgs :
          handleUpdateTemplate(u)
          => /\ Len(templates') = Len(templates)
             /\ \A i \in 1..Len(templates) :
                   /\ templates[i].id = u.id => templates'[i] = u
                   /\ templates[i].id # u.id => templates'[i] = templates[i]
             /\ (activeTemplate # <<>> /\ activeTemplate[1].id = u.id)
                   => activeTemplate' = <<u>>]_vars

\* An edit of the selected template has just been saved: the collection holds
\* the edited record among others, and the selection is that record.
C5_Witness ==
    /\ toast = UpdatedToast
    /\ activeTemplate # <<>>
    /\ activeTemplate[1].name = "Renamed"
    /\ Len(templates) >= 2
    /\ \E i, j \in 1..Len(templates) :
          /\ templates[i] = activeTemplate[1]
          /\ templates[j].name # "Renamed"

\* C6: handleDeleteTemplate(id) yields exactly the records whose id differs
\* from id, in their previous order, and clears the selection; with an id that
\* is not in the collection, the collection is unchanged.
C6_DeleteRemovesById ==
    [][\A t \in TemplateArgs :
          handleDeleteTemplate(t.id)
          => /\ templates' = SelectSeq(templates, LAMBDA r : r.id # t.id)
             /\ activeTemplate' = <<>>
             /\ (\A i \in 1..Len(templates) : templates[i].id # t.id)
                   => templates' = templates]_vars

\* A record of the loaded collection has just been deleted: one record is
\* left and nothing is selected.
C6_Witness ==
    /\ toast = DeletedToast
    /\ activeTemplate = <<>>
    /\ Len(templates) = Len(mockTemplates)
    /\ clock = 0

\* C7: update, publish or unpublish with a template whose id is not in the
\* collection changes nothing: the collection and the selection are what they
\* were before the call.
C7_UnknownIdChangesNothing ==
    [][\A u \in UpdateArgs :
          ( /\ \A i \in 1..Len(templates) : templates[i].id # u.id
            /\ \/ handleUpdateTemplate(u)
               \/ handlePublishTemplate(u)
               \/ handleUnpublishTemplate(u) )
          => UNCHANGED <<templates, activeTemplate>>]_vars
\* ---- Dashboard ----

\* The number of records of fixture that belong to tenant tid and have value k
\* in field f.
TenantCount(fixture, tid, f, k) ==
    Cardinality({j \in 1..Len(fixture) : fixture[j].tenantId = tid /\ fixture[j][f] = k})

\* names and counts (two sequences of one length) are the grouping of tenant
\* tid's records of fixture by field f: one entry per value observed, no entry
\* twice, each with the number of records that have it.
IsGrouping(names, counts, fixture, tid, f) ==
    /\ Len(names) = Len(counts)
    /\ \A i, j \in 1..Len(names) : names[i] = names[j] => i = j
    /\ Range(names) = {fixture[j][f] : j \in {j \in 1..Len(fixture) : fixture[j].tenantId = tid}}
    /\ \A i \in 1..Len(names) : counts[i] = TenantCount(fixture, tid, f, names[i])

\* The three stored groupings are those of tenant tid.
GroupingsOf(tid) ==
    /\ IsGrouping([i \in 1..Len(providerStats) |-> providerStats[i].name],
                  [i \in 1..Len(providerStats) |-> providerStats[i].value],
                  mockCloudAccounts, tid, "provider")
    /\ IsGrouping([i \in 1..Len(statusStats) |-> statusStats[i].name],
                  [i \in 1..Len(statusStats) |-> statusStats[i].value],
                  mockDeployments, tid, "status")
    /\ IsGrouping([i \in 1..Len(providerDistribution) |-> providerDistribution[i].name],
                  [i \in 1..Len(providerDistribution) |-> providerDistribution[i].deployments],
                  mockDeployments, tid, "provider")

\* C8: for any tenant and any fixture arrays, the three groupings the tenant
\* effect computes are accounts per provider, deployments per status and
\* deployments per provider: each key's value is the number of the tenant's
\* records with that key, and the keys are exactly those observed among the
\* tenant's records (none with count zero, no others).
C8_GroupingsCountTenantRecords ==
    (dbMounted /\ currentTenant # <<>>) => GroupingsOf(currentTenant[1].id)

\* The effect has run for tenant-1 over the fixture with statuses running x3,
\* failed x1, pending x2: the status grouping is exactly that.
C8_Witness ==
    /\ dbMounted
    /\ currentTenant = <<[id |-> "tenant-1"]>>
    /\ mockDeployments = SampleDeployments
    /\ statusStats = <<[name |-> "running", value |-> 3],
                       [name |-> "failed", value |-> 1],
                       [name |-> "pending", value |-> 2]>>

\* C9: once the first effect has run, after any sequence of tenant changes the
\* stored groupings are those of the current tenant, and all three are empty
\* whenever there is no tenant.
C9_GroupingsFollowTenant ==
    dbMounted
        => IF currentTenant = <<>>
           THEN providerStats = <<>> /\ statusStats = <<>> /\ providerDistribution = <<>>
           ELSE GroupingsOf(currentTenant[1].id)

\* C10: once the first effect has run, every account and deployment record the
\* dashboard holds belongs to the current tenant; with no tenant, none is held.
C10_HeldRecordsBelongToTenant ==
    dbMounted
        => \A r \in Range(accounts) \cup Range(deployments) :
              currentTenant # <<>> /\ r.tenantId = currentTenant[1].id

\* C11: addWidget on a widget list of length n appends exactly one descriptor
\* at the end, with grid position (x, y) = (n mod 3, floor(n / 3)), and leaves
\* the existing descriptors unchanged and in order; with three widgets at
\* (0,0), (1,0), (2,0) the fourth is placed at (0,1).
C11_AddWidgetAppendsAtGridPosition ==
    [][\A k \in 1..Len(availableWidgets) :
          addWidget(availableWidgets[k].id)
          => /\ Len(widgets') = Len(widgets) + 1
             /\ SubSeq(widgets', 1, Len(widgets)) = widgets
             /\ widgets'[Len(widgets')].position =
                    [x |-> Len(widgets) % 3, y |-> Len(widgets) \div 3]
             /\ widgets'[Len(widgets')].type = availableWidgets[k].id
             /\ ( /\ Len(widgets) = 3
                  /\ \A i \in 1..3 : widgets[i].position = [x |-> i - 1, y |-> 0] )
                   => widgets'[4].position = [x |-> 0, y |-> 1]]_vars

\* Two widgets have been added to the initial two: the three of the first row
\* are at (0,0), (1,0), (2,0), and the fourth is at (0,1).
C11_Witness ==
    /\ Len(widgets) = 4
    /\ SubSeq(widgets, 1, 2) = InitialWidgets
    /\ \A i \in 1..3 : widgets[i].position = [x |-> i - 1, y |-> 0]
    /\ widgets[4].position = [x |-> 0, y |-> 1]

\* C12: markEnablementComplete(id) sets completed = true on the item with that
\* id and changes no other item; and no dashboard operation (marking, tenant
\* change, edit-mode toggle, widget add, save) turns a completed item back to
\* incomplete.
C12_CompletionIsIrreversible ==
    [][ /\ \A k \in 1..Len(enablementItems) :
              markEnablementComplete(enablementItems[k].id)
              => /\ Len(enablementItems') = Len(enablementItems)
                 /\ \A i \in 1..Len(enablementItems) :
                       IF enablementItems[i].id = enablementItems[k].id
                       THEN enablementItems'[i] =
                                [enablementItems[i] EXCEPT !.completed = TRUE]
                       ELSE enablementItems'[i] = enablementItems[i]
        /\ \A i \in 1..Len(enablementItems) :
              enablementItems[i].completed
              => /\ i <= Len(enablementItems')
                 /\ enablementItems'[i].id = enablementItems[i].id
                 /\ enablementItems'[i].completed ]_vars

\* Two items have been marked, one after the other, and are both complete
\* beside two that are not, with a widget added and the dashboard saved under
\* a tenant.
C12_Witness ==
    /\ dbMounted
    /\ [i \in 1..Len(enablementItems) |-> enablementItems[i].completed]
           = <<TRUE, FALSE, TRUE, FALSE>>
    /\ Len(widgets) = 3
    /\ ~isEditMode
    /\ currentTenant = <<[id |-> "tenant-2"]>>

\* The number of onboarding items of a list that are not completed.
Incomplete(items) == Cardinality({i \in 1..Len(items) : ~items[i].completed})

\* C13: in every reachable dashboard state the onboarding section is shown
\* if and only if at least one onboarding item is incomplete; marking the last
\* incomplete item makes the section hidden, and once hidden it stays hidden.
C13_ShownIffSomeIncomplete ==
    /\ [](showEnablement <=> Incomplete(enablementItems) >= 1)
    /\ [][ /\ \A k \in 1..Len(enablementItems) :
                 ( /\ Incomplete(enablementItems) = 1
                   /\ markEnablementComplete(enablementItems[k].id) )
                 => ~showEnablement'
           /\ (~showEnablement) => (~showEnablement') ]_vars

\* The last incomplete item has been marked: all four are complete and the
\* section is hidden.
C13_Witness ==
    /\ dbMounted
    /\ Len(enablementItems) = 4
    /\ Incomplete(enablementItems) = 0
    /\ ~showEnablement

\* C14: no handler's update is lost: after any sequence of handler invocations
\* (create, update, publish, unpublish, delete; addWidget), two invocations off
\* one render included, the collection is what applying every invocation's
\* effect one after another gives.
C14_NoUpdateIsLost ==
    /\ templates = Serial.templates
    /\ widgets = Serial.widgets

\* C15: a template record leaves the collection only through a delete with
\* its id: over create, update, publish, unpublish, selection changes and
\* changes of the session user, a created template whose id was not passed to
\* delete is still in the collection; so a step after which a created record
\* is gone is a handleDeleteTemplate of its id.
C15_CreatedLeaveOnlyByDelete ==
    [][\A i \in 1..Len(templates) :
          ( /\ templates[i].id[1] = "template"
            /\ \A j \in 1..Len(templates') : templates'[j].id # templates[i].id )
          => handleDeleteTemplate(templates[i].id)]_vars

\* C16: selection consistency: in every reachable state of the template
\* screen, if a template is selected then the collection has a record with
\* the selected template's id, and the selection equals that record field for
\* field (isPublished included); this over select, create, update, publish,
\* unpublish, delete and reloads of the fixture.
C16_SelectionIsInCollection ==
    activeTemplate # <<>>
        => /\ \E i \in 1..Len(templates) : templates[i].id = activeTemplate[1].id
           /\ \A i \in 1..Len(templates) :
                 templates[i].id = activeTemplate[1].id => templates[i] = activeTemplate[1]

====
